---- MODULE Spec2Model ----
(***************************************************************************)
(* FediBackfiller (src/main.py): the fetch_replies handler, the recursive  *)
(* reply-tree traversal fetch_replies_recursive and the per-reply          *)
(* notification fetch_ap_object, under asyncio's cooperative scheduling:   *)
(* one action is the code a coroutine runs between two suspension points   *)
(* (the awaited outbound HTTP calls).                                      *)
(*                                                                         *)
(* A URL is the sequence of its "/"-separated segments, as str.split("/")  *)
(* yields them: "https://h/notes/n1" is <<"https:", "", "h", "notes",      *)
(* "n1">>.                                                                 *)
(***************************************************************************)
EXTENDS Integers, Sequences, FiniteSets, TLC

VARIABLES
    AUTHENTICATION_CACHE,  \* dict token -> username               (line 31)
    DEBOUNCE_CACHE,        \* dict post_url -> time of last trigger (line 32)
    now,                   \* datetime.datetime.now(), in seconds
    request,               \* per handler: the FetchRepliesRequest (post_url, token)
    pc,                    \* per handler: the suspension point it is at
    stack,                 \* per handler: frames of fetch_replies_recursive
    tasks,                 \* per handler: URIs of the gather in progress
    pending,               \* per handler: tasks of the gather not yet completed
    result,                \* per handler: the response returned
    calls,                 \* history: outbound calls issued, per handler and kind
    notified,              \* history: URIs handed to fetch_ap_object, in order
    failed,                \* history: tasks of the current gather that failed
    gateLog,               \* history: debounce decisions, in order
    listings,              \* history: the first listing's outcome, the nodes whose
                           \*   listing failed, whether a listing raised
    deepest,               \* history: largest depth fetch_replies_recursive was called with
    overlapAuth,           \* history: tokens whose identity checks overlapped
    landed,                \* history: per handler, the answer to its redirect-resolving GET
    fetchers,              \* history: per handler, the listing endpoints it called
    world                  \* the callers (the URLs they post, who may post,
                           \*   whether their requests overlap) and the servers
                           \*   called (whether they may fail, how long the
                           \*   listings of the wide hosts are, whether notify
                           \*   calls are answered in the order issued)

vars == <<AUTHENTICATION_CACHE, DEBOUNCE_CACHE, now, request, pc, stack, tasks,
          pending, result, calls, notified, failed, gateLog, listings, deepest,
          overlapAuth, landed, fetchers, world>>

---------------------------------------------------------------------------
(* Program constants *)

DEBOUNCE_TIMEOUT == 180
MAX_DEPTH == 50
FLAT_LIMIT == 50
CHILDREN_LIMIT == 50
SNOWFLAKE_LENGTH == 18
HTTP_OK == 200

(* Bounds of the model *)

MaxRequests == 2
TickStep == 90
MaxTime == 270
MaxWidth == 80

Reqs == 1..MaxRequests

---------------------------------------------------------------------------
(* The remote world: the callers' inputs and what the servers answer *)

Tokens == {"tok_valid", "tok_bad"}
ValidTokens == {"tok_valid"}
Username(token) == IF token \in ValidTokens THEN "alice" ELSE "nobody"

Null == <<>>

MkUrl(host, dir, id) == <<"https:", "", host, dir, id>>

UrlTree == MkUrl("mk.example", "notes", "n1")
UrlLeaf == MkUrl("mk.example", "notes", "n3")
UrlAlias == MkUrl("mk.example", "n", "n3short")
UrlFlat == MkUrl("ma.example", "@u", "123456789012345678")
UrlLoop == MkUrl("loop.example", "notes", "c0")
UrlWide == MkUrl("wide.example", "notes", "w0")
UrlWideBelow == MkUrl("wide.example", "notes", "v0")
UrlCrowd == MkUrl("crowd.example", "@u", "223456789012345678")
\* post URLs told apart by the length of their last segment (0, 17, 19, 18)
UrlSlash == MkUrl("mk.example", "notes", "")
UrlShort == MkUrl("ma.example", "@u", "12345678901234567")
UrlLong == MkUrl("ma.example", "@u", "1234567890123456789")
UrlNote18 == MkUrl("mk.example", "notes", "abcdefghijklmnopqr")

\* the id of the k-th item of a wide listing
WideId(k) == "w" \o ToString(k)

\* httpx follows redirects; str(response.url) is the final URL.
Resolve(url) == IF url = UrlAlias THEN UrlLeaf ELSE url

\* What POST /api/notes/children answers for noteId on host.
Children(host, id) ==
    CASE host = "mk.example" /\ id = "n1" ->
            << [id |-> "n2"], [id |-> "n3", uri |-> Null] >>
      [] host = "mk.example" /\ id = "n2" ->
            << [id |-> "n4", uri |-> MkUrl("far.example", "notes", "r4")] >>
      [] host = "loop.example" /\ id = "c0" -> << [id |-> "c0"] >>
      [] host = "wide.example" /\ id = "v0" -> << [id |-> "w0"] >>
      [] host = "wide.example" /\ id = "w0" ->
            [k \in 1..world.width |-> [id |-> WideId(k)]]
      [] OTHER -> << >>

\* What GET /api/v1/statuses/{id}/context answers in "descendants".
Descendants(host, id) ==
    IF host = "ma.example"
    THEN << [url |-> MkUrl("ma.example", "@a", "100000000000000001")],
            [url |-> MkUrl("mb.example", "@b", "100000000000000002")] >>
    ELSE IF host = "crowd.example"
    THEN [k \in 1..world.width |-> [url |-> MkUrl("crowd.example", "@c", WideId(k))]]
    ELSE << >>

StatusCodes == {200, 204, 500}
Replied(s) == [raised |-> FALSE, status_code |-> s]
Raised == [raised |-> TRUE, status_code |-> 0]
NoAnswer == [raised |-> FALSE, status_code |-> 0]
Responses == {Replied(s) : s \in StatusCodes} \cup {Raised}

\* The home instance answers the identity check by the token alone.
AuthResponses(token) ==
    IF token \in ValidTokens
    THEN {Replied(200)}
    ELSE {Replied(s) : s \in StatusCodes \ {200}}

---------------------------------------------------------------------------
(* Helpers *)

Put(d, k, v) == [f \in (DOMAIN d) \cup {k} |-> IF f = k THEN v ELSE d[f]]

Last(s) == s[Len(s)]
Front(s) == SubSeq(s, 1, Len(s) - 1)
Max(a, b) == IF a > b THEN a ELSE b

---------------------------------------------------------------------------
(* The code's decisions, one operator each *)

\* a slip: every token is taken for a cached one
NeedsAuth_Never(cache, token) == FALSE

\* a slip: the cache is never consulted
NeedsAuth_Always(cache, token) == TRUE

\* line 52: if request.token not in AUTHENTICATION_CACHE
NeedsAuth(cache, token) == token \notin DOMAIN cache

\* a slip: the status of the identity check is not looked at
AuthFailed_Never(res) == FALSE

\* line 58: if response.status_code != 200
AuthFailed(res) == res.status_code # HTTP_OK

\* a variant: the key is the URL the redirects end at
DebounceKey_Resolved(post_url) == Resolve(post_url)

\* lines 67-71 use request.post_url, as the caller supplied it, as the key
DebounceKey(post_url) == post_url

\* a slip: the gate never closes
Debounced_Never(cache, key, t) == FALSE

\* a slip: <= for <
Debounced_Inclusive(cache, key, t) ==
    key \in DOMAIN cache /\ t - cache[key] <= DEBOUNCE_TIMEOUT

\* lines 67-68
Debounced(cache, key, t) ==
    key \in DOMAIN cache /\ t - cache[key] < DEBOUNCE_TIMEOUT

\* a slip: the trigger is not recorded
MarkTriggered_Skipped(cache, key, t) == cache

\* line 71
MarkTriggered(cache, key, t) == Put(cache, key, t)

\* a variant: every 2xx status counts as success
RedirectFailed_Non2xx(res) == res.status_code \notin 200..299

\* line 75
RedirectFailed(res) == res.status_code # HTTP_OK

\* line 84: request.post_url.split("/")[-1]
PostId(url) == Last(url)

\* line 85: urllib.parse.urlsplit(request.post_url).netloc
Netloc(url) == url[3]

\* a slip: >= for ==
IsSnowflake_AtLeast(post_id) == Len(post_id) >= SNOWFLAKE_LENGTH

\* line 88
IsSnowflake(post_id) == Len(post_id) = SNOWFLAKE_LENGTH

\* line 94
FlatListingFailed(res) == res.status_code # HTTP_OK

\* a slip: the status of a children listing is not looked at
ChildrenListingFailed_Never(res) == FALSE

\* line 131
ChildrenListingFailed(res) == res.status_code # HTTP_OK

\* a slip: the first 50 are kept
CapDescendants_First(d) ==
    IF Len(d) > FLAT_LIMIT THEN SubSeq(d, 1, FLAT_LIMIT) ELSE d

\* lines 100-101: descendants[-50:]
CapDescendants(d) ==
    IF Len(d) > FLAT_LIMIT THEN SubSeq(d, Len(d) - FLAT_LIMIT + 1, Len(d)) ELSE d

\* a slip: the last 50 are kept
CapChildren_Last(response) ==
    IF Len(response) > CHILDREN_LIMIT
    THEN SubSeq(response, Len(response) - CHILDREN_LIMIT + 1, Len(response))
    ELSE response

\* lines 137-138: response[:50]
CapChildren(response) ==
    IF Len(response) > CHILDREN_LIMIT THEN SubSeq(response, 1, CHILDREN_LIMIT)
    ELSE response

\* lines 145-146
WithUri(reply, post_base_host) ==
    IF "uri" \notin DOMAIN reply
    THEN Put(reply, "uri", MkUrl(post_base_host, "notes", reply.id))
    ELSE reply

\* a slip: the depth is not checked
DepthExceeded_Never(depth, max_depth) == FALSE

\* a slip: off by one
DepthExceeded_Late(depth, max_depth) == depth > max_depth + 1

\* line 121
DepthExceeded(depth, max_depth) == depth > max_depth

\* a slip: no try/except around the POST
FetchApObject_Unguarded(res) ==
    IF res.raised THEN "raised"
    ELSE IF res.status_code # HTTP_OK THEN "failed" ELSE "fetched"

\* lines 159-174: how a fetch_ap_object task ends for the answer to its call
FetchApObject(res) ==
    IF res.raised THEN "failed"
    ELSE IF res.status_code # HTTP_OK THEN "failed" ELSE "fetched"

\* a slip: the tasks are started and not awaited
GatherDone_Always(left) == TRUE

\* lines 104 and 154: gather returns when every task has completed
GatherDone(left) == left = {}

\* lines 103 and 153
FlatTasks(descendants) == [k \in 1..Len(descendants) |-> descendants[k].url]
TreeTasks(response) == [k \in 1..Len(response) |-> response[k].uri]

---------------------------------------------------------------------------
(* Responses of the handler *)

NoResult == [status_code |-> 0, message |-> ""]
InvalidToken == [status_code |-> 200, message |-> "Invalid user token"]
DebouncedMessage == [status_code |-> 200, message |-> "Debounced"]
UnreachablePost == [status_code |-> 500, message |-> "Failed to fetch post URL"]
FlatFetchError == [status_code |-> 500, message |-> "Failed to fetch Mastodon replies"]
FlatFetched == [status_code |-> 200, message |-> "Fetched Mastodon replies"]
TreeFetched(replies) ==
    [status_code |-> 200, message |-> "Fetched Misskey replies", replies |-> replies]
TreeFetchError == [status_code |-> 500, message |-> "Failed to fetch Misskey replies"]
\* an exception no handler catches: the framework answers 500
Unhandled == [status_code |-> 500, message |-> "Internal Server Error"]

---------------------------------------------------------------------------
(* fetch_replies_recursive, run from one suspension point to the next.     *)
(* A frame is one call: its arguments, its `response` list and the index i *)
(* of the reply the for loop is at. The operators yield where the          *)
(* coroutine suspends next (`at`), or the value returned to fetch_replies. *)

Frame(post_base_host, post_id, depth) ==
    [post_base_host |-> post_base_host, post_id |-> post_id, depth |-> depth,
     response |-> << >>, i |-> 0]

RECURSIVE Invoke(_, _, _, _, _), Deliver(_, _, _), Iterate(_, _)

\* lines 120-129: a call of fetch_replies_recursive from the frames stk
Invoke(stk, post_base_host, post_id, depth, deep) ==
    IF DepthExceeded(depth, MAX_DEPTH)
    THEN Deliver(stk, << >>, Max(deep, depth))
    ELSE [at |-> "await_children",
          stack |-> Append(stk, Frame(post_base_host, post_id, depth)),
          tasks |-> << >>, value |-> << >>, deepest |-> Max(deep, depth)]

\* a slip: the value returned is not assigned to reply["replies"]
Deliver_Unassigned(stk, value, deep) ==
    IF stk = << >>
    THEN [at |-> "returned", stack |-> << >>, tasks |-> << >>,
          value |-> value, deepest |-> deep]
    ELSE LET f == Last(stk)
             g == [f EXCEPT !.i = f.i + 1]
         IN  Iterate(Append(Front(stk), g), deep)

\* a call returns `value` to its caller: line 150 assigns it, the loop goes on
Deliver(stk, value, deep) ==
    IF stk = << >>
    THEN [at |-> "returned", stack |-> << >>, tasks |-> << >>,
          value |-> value, deepest |-> deep]
    ELSE LET f == Last(stk)
             reply == Put(f.response[f.i], "replies", value)
             g == [f EXCEPT !.response[f.i] = reply, !.i = f.i + 1]
         IN  Iterate(Append(Front(stk), g), deep)

\* lines 144-156: the for loop at reply i of the top frame, then the gather
Iterate(stk, deep) ==
    LET f == Last(stk) IN
    IF f.i <= Len(f.response)
    THEN LET reply == WithUri(f.response[f.i], f.post_base_host)
             g == [f EXCEPT !.response[f.i] = reply]
         IN  Invoke(Append(Front(stk), g), f.post_base_host, reply.id,
                    f.depth + 1, deep)
    ELSE IF TreeTasks(f.response) = << >>
         THEN Deliver(Front(stk), f.response, deep)
         ELSE [at |-> "await_gather", stack |-> stk,
               tasks |-> TreeTasks(f.response), value |-> << >>, deepest |-> deep]

---------------------------------------------------------------------------
(* State after construction *)

NoCalls == [auth |-> 0, redirect |-> 0, listing |-> 0, notify |-> 0]
NoListings == [first |-> "none", failedNodes |-> {}, raised |-> FALSE]

InitHandlers ==
    /\ AUTHENTICATION_CACHE = << >>
    /\ DEBOUNCE_CACHE = << >>
    /\ now = 0
    /\ request = [r \in Reqs |-> [post_url |-> Null, token |-> ""]]
    /\ pc = [r \in Reqs |-> "idle"]
    /\ stack = [r \in Reqs |-> << >>]
    /\ tasks = [r \in Reqs |-> << >>]
    /\ pending = [r \in Reqs |-> {}]
    /\ result = [r \in Reqs |-> NoResult]
    /\ calls = [r \in Reqs |-> NoCalls]
    /\ notified = [r \in Reqs |-> << >>]
    /\ failed = [r \in Reqs |-> {}]
    /\ gateLog = << >>
    /\ listings = [r \in Reqs |-> NoListings]
    /\ deepest = [r \in Reqs |-> 0]
    /\ overlapAuth = {}
    /\ landed = [r \in Reqs |-> NoAnswer]
    /\ fetchers = [r \in Reqs |-> {}]

\* Callers post a note without replies, a redirecting alias of it and a flat
\* URL; their requests may overlap; the servers called answer 200.
Init ==
    /\ InitHandlers
    /\ world = [urls |-> {UrlLeaf, UrlAlias, UrlFlat}, reqs |-> Reqs,
                overlap |-> TRUE, faults |-> FALSE, width |-> 0,
                ordered |-> FALSE]

\* One caller posts a note with a reply tree, a note of a host whose reply
\* graph is a cycle, or a flat URL; every call may fail or raise.
InitTree ==
    /\ InitHandlers
    /\ world = [urls |-> {UrlTree, UrlLoop, UrlFlat}, reqs |-> {1},
                overlap |-> FALSE, faults |-> TRUE, width |-> 0,
                ordered |-> FALSE]

\* One caller posts a note with up to MaxWidth replies, a note whose one reply
\* has that many, or a flat URL with that many descendants; the servers
\* answer 200, the home instance in the order the notify calls were issued.
InitWide ==
    /\ InitHandlers
    /\ world \in {[urls |-> {UrlWide, UrlWideBelow, UrlCrowd}, reqs |-> {1},
                   overlap |-> FALSE, faults |-> FALSE, width |-> w,
                   ordered |-> TRUE] : w \in 0..MaxWidth}

\* One caller posts a redirecting alias of a note, a flat URL, or a URL whose
\* last segment is empty, 17, 19 or (on the host of the notes) 18 characters
\* long; every call may fail or raise.
InitPost ==
    /\ InitHandlers
    /\ world = [urls |-> {UrlAlias, UrlFlat, UrlSlash, UrlShort, UrlLong, UrlNote18},
                reqs |-> {1}, overlap |-> FALSE, faults |-> TRUE, width |-> 0,
                ordered |-> FALSE]

\* A caller posts a note, a redirecting alias of it or a flat URL, and posts
\* again when the first request has returned; every call may fail or raise.
InitRetry ==
    /\ InitHandlers
    /\ world = [urls |-> {UrlLeaf, UrlAlias, UrlFlat}, reqs |-> {1, 2},
                overlap |-> FALSE, faults |-> TRUE, width |-> 0,
                ordered |-> FALSE]

\* what a server may answer to a call
Answers == IF world.faults THEN Responses ELSE {Replied(HTTP_OK)}

---------------------------------------------------------------------------
(* Pieces of the handler shared by several suspension points *)

Issue(r, kind, n) == [calls EXCEPT ![r][kind] = @ + n]

\* the handler returns `res`
Respond(r, res) ==
    /\ pc' = [pc EXCEPT ![r] = "done"]
    /\ result' = [result EXCEPT ![r] = res]

\* lines 67-74: the debounce gate, then the redirect-resolving GET is issued
DebounceGate(r, post_url) ==
    LET key == DebounceKey(post_url)
        hit == Debounced(DEBOUNCE_CACHE, key, now)
    IN  /\ gateLog' = Append(gateLog,
               [rid |-> r, url |-> post_url, time |-> now, pass |-> ~hit])
        /\ IF hit
           THEN /\ Respond(r, DebouncedMessage)
                /\ UNCHANGED <<DEBOUNCE_CACHE, calls>>
           ELSE /\ DEBOUNCE_CACHE' = MarkTriggered(DEBOUNCE_CACHE, key, now)
                /\ pc' = [pc EXCEPT ![r] = "await_redirect"]
                /\ calls' = Issue(r, "redirect", 1)
                /\ UNCHANGED result

\* asyncio.gather over the tasks `uris`: every task runs to its POST
Gather(r, uris) ==
    /\ pc' = [pc EXCEPT ![r] = "await_gather"]
    /\ tasks' = [tasks EXCEPT ![r] = uris]
    /\ pending' = [pending EXCEPT ![r] = 1..Len(uris)]
    /\ failed' = [failed EXCEPT ![r] = {}]
    /\ notified' = [notified EXCEPT ![r] = @ \o uris]
    /\ calls' = Issue(r, "notify", Len(uris))
    /\ UNCHANGED result

\* the traversal ran to `o`: its next suspension point, or its return to
\* fetch_replies (line 115)
Traverse(r, o) ==
    /\ stack' = [stack EXCEPT ![r] = o.stack]
    /\ deepest' = [deepest EXCEPT ![r] = o.deepest]
    /\ IF o.at = "await_children"
       THEN /\ pc' = [pc EXCEPT ![r] = "await_children"]
            /\ calls' = Issue(r, "listing", 1)
            /\ fetchers' = [fetchers EXCEPT ![r] = @ \cup {"children"}]
            /\ UNCHANGED <<tasks, pending, failed, notified, result>>
       ELSE IF o.at = "await_gather"
       THEN /\ Gather(r, o.tasks)
            /\ UNCHANGED fetchers
       ELSE /\ Respond(r, TreeFetched(o.value))
            /\ UNCHANGED <<tasks, pending, failed, notified, calls, fetchers>>

---------------------------------------------------------------------------
(* The actions: one per suspension point of a handler *)

\* lines 48-56 (and, on a cache hit, 64-74): a request arrives; requests are
\* numbered in the order of their arrival
Start(r, post_url, token) ==
    /\ pc[r] = "idle"
    /\ r \in world.reqs
    /\ \A o \in world.reqs : o < r => pc[o] # "idle"
    /\ world.overlap \/ \A o \in world.reqs : pc[o] \in {"idle", "done"}
    /\ post_url \in world.urls
    /\ request' = [request EXCEPT ![r] = [post_url |-> post_url, token |-> token]]
    /\ overlapAuth' =
           IF \E o \in Reqs : pc[o] = "await_auth" /\ request[o].token = token
           THEN overlapAuth \cup {token} ELSE overlapAuth
    /\ IF NeedsAuth(AUTHENTICATION_CACHE, token)
       THEN /\ pc' = [pc EXCEPT ![r] = "await_auth"]
            /\ calls' = Issue(r, "auth", 1)
            /\ UNCHANGED <<DEBOUNCE_CACHE, gateLog, result>>
       ELSE DebounceGate(r, post_url)
    /\ UNCHANGED <<AUTHENTICATION_CACHE, now, stack, tasks, pending, notified,
                   failed, listings, deepest, landed, fetchers, world>>

\* lines 58-74: the identity check is answered
AuthReturn(r, res) ==
    /\ pc[r] = "await_auth"
    /\ res \in AuthResponses(request[r].token)
    /\ IF res.raised
       THEN /\ Respond(r, Unhandled)
            /\ UNCHANGED <<AUTHENTICATION_CACHE, DEBOUNCE_CACHE, gateLog, calls>>
       ELSE IF AuthFailed(res)
       THEN /\ Respond(r, InvalidToken)
            /\ UNCHANGED <<AUTHENTICATION_CACHE, DEBOUNCE_CACHE, gateLog, calls>>
       ELSE /\ AUTHENTICATION_CACHE' =
                   Put(AUTHENTICATION_CACHE, request[r].token,
                       Username(request[r].token))
            /\ DebounceGate(r, request[r].post_url)
    /\ UNCHANGED <<now, request, stack, tasks, pending, notified, failed,
                   listings, deepest, overlapAuth, landed, fetchers, world>>

\* lines 75-93 and 111-125: the redirect-resolving GET is answered
RedirectReturn(r, res) ==
    /\ pc[r] = "await_redirect"
    /\ res \in Answers
    /\ landed' = [landed EXCEPT ![r] = res]
    /\ IF res.raised
       THEN /\ Respond(r, Unhandled)
            /\ UNCHANGED <<request, stack, tasks, pending, notified, failed,
                           calls, deepest, fetchers>>
       ELSE IF RedirectFailed(res)
       THEN /\ Respond(r, UnreachablePost)
            /\ UNCHANGED <<request, stack, tasks, pending, notified, failed,
                           calls, deepest, fetchers>>
       ELSE LET url == Resolve(request[r].post_url)
                post_id == PostId(url)
                post_base_host == Netloc(url)
            IN  /\ request' = [request EXCEPT ![r].post_url = url]
                /\ IF IsSnowflake(post_id)
                   THEN /\ pc' = [pc EXCEPT ![r] = "await_flat"]
                        /\ calls' = Issue(r, "listing", 1)
                        /\ fetchers' = [fetchers EXCEPT ![r] = @ \cup {"context"}]
                        /\ UNCHANGED <<stack, tasks, pending, notified, failed,
                                       result, deepest>>
                   ELSE Traverse(r, Invoke(<< >>, post_base_host, post_id, 0, 0))
    /\ UNCHANGED <<AUTHENTICATION_CACHE, DEBOUNCE_CACHE, now, gateLog, listings,
                   overlapAuth, world>>

\* lines 94-104: the flat context listing is answered
FlatReturn(r, res) ==
    /\ pc[r] = "await_flat"
    /\ res \in Answers
    /\ listings' = [listings EXCEPT ![r].first =
                       IF res.raised THEN "raised"
                       ELSE IF res.status_code # 200 THEN "failed" ELSE "ok",
                                      ![r].raised = res.raised]
    /\ IF res.raised
       THEN /\ Respond(r, Unhandled)
            /\ UNCHANGED <<tasks, pending, notified, failed, calls>>
       ELSE IF FlatListingFailed(res)
       THEN /\ Respond(r, FlatFetchError)
            /\ UNCHANGED <<tasks, pending, notified, failed, calls>>
       ELSE LET url == request[r].post_url
                descendants == CapDescendants(Descendants(Netloc(url), PostId(url)))
            IN  IF FlatTasks(descendants) = << >>
                THEN /\ Respond(r, FlatFetched)
                     /\ UNCHANGED <<tasks, pending, notified, failed, calls>>
                ELSE Gather(r, FlatTasks(descendants))
    /\ UNCHANGED <<AUTHENTICATION_CACHE, DEBOUNCE_CACHE, now, request, stack,
                   gateLog, deepest, overlapAuth, landed, fetchers, world>>

\* lines 131-154: a children listing is answered
ChildrenReturn(r, res) ==
    /\ pc[r] = "await_children"
    /\ res \in Answers
    /\ LET f == Last(stack[r])
           how == IF res.raised THEN "raised"
                  ELSE IF res.status_code # 200 THEN "failed" ELSE "ok"
       IN  /\ listings' =
                  IF f.depth = 0
                  THEN [listings EXCEPT ![r].first = how, ![r].raised = res.raised]
                  ELSE IF how = "failed"
                  THEN [listings EXCEPT
                           ![r].failedNodes = @ \cup {<<f.depth, f.post_id>>}]
                  ELSE [listings EXCEPT ![r].raised = @ \/ res.raised]
           /\ IF res.raised
              THEN \* the exception unwinds every frame to line 116
                   /\ Respond(r, TreeFetchError)
                   /\ stack' = [stack EXCEPT ![r] = << >>]
                   /\ UNCHANGED <<tasks, pending, notified, failed, calls, deepest,
                                  fetchers>>
              ELSE IF ChildrenListingFailed(res)
              THEN Traverse(r, Deliver(Front(stack[r]), << >>, deepest[r]))
              ELSE LET response == CapChildren(Children(f.post_base_host, f.post_id))
                       g == [f EXCEPT !.response = response, !.i = 1]
                   IN  Traverse(r, Iterate(Append(Front(stack[r]), g), deepest[r]))
    /\ UNCHANGED <<AUTHENTICATION_CACHE, DEBOUNCE_CACHE, now, request, gateLog,
                   overlapAuth, landed, world>>

\* lines 162-174: the POST of task k of the gather is answered, the task ends
NotifyReturn(r, k, res) ==
    /\ pc[r] = "await_gather"
    /\ k \in pending[r]
    /\ world.ordered => \A j \in pending[r] : k <= j
    /\ res \in Answers
    /\ pending' = [pending EXCEPT ![r] = @ \ {k}]
    /\ IF FetchApObject(res) = "raised"
       THEN \* gather re-raises the first exception of a task at once
            /\ Respond(r, IF stack[r] = << >> THEN Unhandled ELSE TreeFetchError)
            /\ stack' = [stack EXCEPT ![r] = << >>]
            /\ UNCHANGED failed
       ELSE /\ failed' = [failed EXCEPT ![r] =
                             IF FetchApObject(res) = "failed" THEN @ \cup {k} ELSE @]
            /\ UNCHANGED <<pc, result, stack>>
    /\ UNCHANGED <<AUTHENTICATION_CACHE, DEBOUNCE_CACHE, now, request, tasks,
                   calls, notified, gateLog, listings, deepest, overlapAuth,
                   landed, fetchers, world>>

\* lines 104-106 and 154-156: the gather returns to the coroutine awaiting it
GatherReturn(r) ==
    /\ pc[r] = "await_gather"
    /\ GatherDone(pending[r])
    /\ IF stack[r] = << >>
       THEN /\ Respond(r, FlatFetched)
            /\ UNCHANGED <<stack, tasks, pending, notified, failed, calls, deepest,
                           fetchers>>
       ELSE Traverse(r, Deliver(Front(stack[r]), Last(stack[r]).response,
                                deepest[r]))
    /\ UNCHANGED <<AUTHENTICATION_CACHE, DEBOUNCE_CACHE, now, request, gateLog,
                   listings, overlapAuth, landed, world>>

\* time passes; the clock is read at lines 68-71 only, so its advance is
\* followed while a request can still come to read it
Tick ==
    /\ now + TickStep <= MaxTime
    /\ \E r \in world.reqs : pc[r] \in {"idle", "await_auth"}
    /\ now' = now + TickStep
    /\ UNCHANGED <<AUTHENTICATION_CACHE, DEBOUNCE_CACHE, request, pc, stack, tasks,
                   pending, result, calls, notified, failed, gateLog, listings,
                   deepest, overlapAuth, landed, fetchers, world>>

Next ==
    \/ \E r \in Reqs, post_url \in world.urls, token \in Tokens :
           Start(r, post_url, token)
    \/ \E r \in Reqs, res \in Responses : AuthReturn(r, res)
    \/ \E r \in Reqs, res \in Responses : RedirectReturn(r, res)
    \/ \E r \in Reqs, res \in Responses : FlatReturn(r, res)
    \/ \E r \in Reqs, res \in Responses : ChildrenReturn(r, res)
    \/ \E r \in Reqs : \E k \in pending[r], res \in Responses :
           NotifyReturn(r, k, res)
    \/ \E r \in Reqs : GatherReturn(r)
    \/ Tick

Spec == Init /\ [][Next]_vars

SpecTree == InitTree /\ [][Next]_vars

SpecWide == InitWide /\ [][Next]_vars

SpecPost == InitPost /\ [][Next]_vars

SpecRetry == InitRetry /\ [][Next]_vars

\* the call handler r is suspended in is answered, or its gather returns
Proceed(r) ==
    \/ \E res \in Responses : AuthReturn(r, res)
    \/ \E res \in Responses : RedirectReturn(r, res)
    \/ \E res \in Responses : FlatReturn(r, res)
    \/ \E res \in Responses : ChildrenReturn(r, res)
    \/ \E k \in pending[r], res \in Responses : NotifyReturn(r, k, res)
    \/ GatherReturn(r)

\* every outbound call completes, and the event loop runs what is ready
\* (one handler runs in the worlds below)
Completion == WF_vars(\E r \in Reqs : Proceed(r))

\* the world of the reply trees, the cyclic one included, and the one of a
\* note with 50 replies
InitLive ==
    \/ InitTree
    \/ /\ InitHandlers
       /\ world = [urls |-> {UrlWide}, reqs |-> {1}, overlap |-> FALSE,
                   faults |-> FALSE, width |-> CHILDREN_LIMIT, ordered |-> TRUE]

SpecLive == InitLive /\ [][Next]_vars /\ Completion

---------------------------------------------------------------------------
(* Properties *)

Gates == 1..Len(gateLog)
Passes(url, j) == {i \in 1..(j - 1) : gateLog[i].url = url /\ gateLog[i].pass}
LastPass(url, j) == CHOOSE i \in Passes(url, j) : \A k \in Passes(url, j) : k <= i
GateOf(r) == {j \in Gates : gateLog[j].rid = r}
NoFetchCalls(r) ==
    calls[r].redirect = 0 /\ calls[r].listing = 0 /\ calls[r].notify = 0

RECURSIVE SumAuth(_)
SumAuth(S) ==
    IF S = {} THEN 0
    ELSE LET r == CHOOSE x \in S : TRUE IN calls[r].auth + SumAuth(S \ {r})
Carrying(token) == {r \in Reqs : pc[r] # "idle" /\ request[r].token = token}

\* C1. Debounce window: a request that reaches the gate less than 180 s
\* after the last pass for the same URL string is answered "Debounced" and
\* issues no redirect, listing or notify call; one that reaches it 180 s or
\* more after the last pass (or with no pass before it) passes, and the
\* cache then holds the time of the latest pass.
C1_DebounceWindow ==
    \A j \in Gates :
        LET e == gateLog[j]
            before == Passes(e.url, j)
        IN  /\ IF before # {} /\
                  e.time - gateLog[LastPass(e.url, j)].time < DEBOUNCE_TIMEOUT
               THEN /\ ~e.pass
                    /\ result[e.rid] = DebouncedMessage
                    /\ NoFetchCalls(e.rid)
               ELSE e.pass
            /\ (e.pass /\ Passes(e.url, Len(gateLog) + 1) \subseteq 1..j)
                   => /\ e.url \in DOMAIN DEBOUNCE_CACHE
                      /\ DEBOUNCE_CACHE[e.url] = e.time

\* a request is debounced 90 s after another passed for the same URL
C1_Witness ==
    \E i, j \in Gates :
        /\ i < j
        /\ gateLog[i].url = gateLog[j].url
        /\ gateLog[i].pass /\ ~gateLog[j].pass
        /\ gateLog[j].time - gateLog[i].time = TickStep
        /\ pc[gateLog[j].rid] = "done"

\* C2 as stated: the debounce gate is checked before any outbound call of
\* the request, the identity check included.
C2_GateBeforeIdentityCheck ==
    \A r \in Reqs : calls[r].auth > 0 => GateOf(r) # {}

\* C2, amended. The identity check (for a token not cached) comes first; the
\* debounce gate is checked only for an authenticated token, and on proceed
\* marked, before any redirect, listing or notify call of the request.
C2_GateAfterIdentityCheck ==
    \A r \in Reqs :
        /\ pc[r] = "await_auth" => GateOf(r) = {} /\ NoFetchCalls(r)
        /\ GateOf(r) # {} => request[r].token \in DOMAIN AUTHENTICATION_CACHE
        /\ ~NoFetchCalls(r) =>
               \E j \in GateOf(r) :
                   /\ gateLog[j].pass
                   /\ gateLog[j].url \in DOMAIN DEBOUNCE_CACHE
                   /\ DEBOUNCE_CACHE[gateLog[j].url] >= gateLog[j].time

\* a request whose token was not cached was checked, passed the gate and
\* issued its redirect-resolving GET
C2_Witness ==
    \E r \in Reqs :
        /\ calls[r].auth = 1 /\ calls[r].redirect = 1
        /\ pc[r] = "await_redirect"

\* C3 as stated: requests whose URLs resolve to the same final URL share one
\* debounce entry, so the second of them within 180 s is debounced.
C3_CanonicalKey ==
    \A i, j \in Gates :
        ( /\ i < j
          /\ gateLog[i].pass
          /\ Resolve(gateLog[i].url) = Resolve(gateLog[j].url)
          /\ gateLog[j].time - gateLog[i].time < DEBOUNCE_TIMEOUT )
        => ~gateLog[j].pass

\* C3, amended. The debounce cache is read and written under the URL string
\* the caller supplied, before redirect resolution: its keys are exactly the
\* supplied strings of the requests that passed, and a request whose string
\* no earlier request supplied passes whatever its URL resolves to.
C3_SuppliedKey ==
    /\ DOMAIN DEBOUNCE_CACHE = {gateLog[j].url : j \in {i \in Gates : gateLog[i].pass}}
    /\ \A j \in Gates :
           (\A i \in 1..(j - 1) : gateLog[i].url # gateLog[j].url) => gateLog[j].pass

\* the alias was resolved for one request, and a request for the URL it
\* resolves to passed the gate within the window
C3_Witness ==
    \E i, j \in Gates :
        /\ i < j
        /\ gateLog[i].url = UrlAlias /\ gateLog[j].url = UrlLeaf
        /\ request[gateLog[i].rid].post_url = UrlLeaf
        /\ gateLog[i].pass /\ gateLog[j].pass
        /\ gateLog[j].time - gateLog[i].time < DEBOUNCE_TIMEOUT

\* C4 as stated: requests carrying the same valid token issue one identity
\* check in total, overlapping or not.
C4_OneIdentityCheck ==
    \A token \in ValidTokens : SumAuth(Carrying(token)) <= 1

\* C4, amended. Requests carrying the same valid token that do not overlap in
\* the identity check (none starts while another is suspended in it) issue
\* exactly one identity check in total; the others are served from the cache.
C4_OneIdentityCheckInSequence ==
    \A token \in ValidTokens :
        (Carrying(token) # {} /\ token \notin overlapAuth)
            => SumAuth(Carrying(token)) = 1

\* two requests with the valid token, one after the other: one identity check
C4_Witness ==
    \E r, o \in Reqs :
        /\ r # o
        /\ request[r].token \in ValidTokens /\ request[o].token = request[r].token
        /\ request[r].token \notin overlapAuth
        /\ calls[r].auth = 1 /\ calls[o].auth = 0
        /\ pc[r] = "done" /\ pc[o] = "done"

\* C5. Invalid token: a request whose identity check is answered with a
\* non-success status ends with the InvalidToken message, has issued no other
\* outbound call and has not reached the debounce gate; the step that ends it
\* changes neither cache; only tokens whose check succeeds are in the
\* authentication cache.
C5_InvalidToken ==
    /\ [](\A r \in Reqs :
            /\ (pc[r] = "done" /\ request[r].token \notin ValidTokens)
                   => result[r] = InvalidToken
            /\ result[r] = InvalidToken
                   => /\ calls[r] = [NoCalls EXCEPT !.auth = 1]
                      /\ GateOf(r) = {}
                      /\ request[r].token \notin DOMAIN AUTHENTICATION_CACHE)
    /\ [](DOMAIN AUTHENTICATION_CACHE \subseteq ValidTokens)
    /\ [][\A r \in Reqs :
            (pc[r] = "await_auth" /\ result'[r] = InvalidToken)
                => UNCHANGED <<AUTHENTICATION_CACHE, DEBOUNCE_CACHE>>]_vars

\* a request ended with InvalidToken while both caches held entries
C5_Witness ==
    \E r \in Reqs :
        /\ result[r] = InvalidToken
        /\ DOMAIN AUTHENTICATION_CACHE # {}
        /\ DOMAIN DEBOUNCE_CACHE # {}

RECURSIVE TreeDepth(_), DeepestBranch(_, _)
\* the number of levels of a reply tree
TreeDepth(tree) == IF tree = << >> THEN 0 ELSE 1 + DeepestBranch(tree, Len(tree))
DeepestBranch(tree, n) ==
    IF n = 0 THEN 0
    ELSE Max(TreeDepth(tree[n].replies), DeepestBranch(tree, n - 1))

\* C6 as stated: on every path the nested fetch_replies_recursive calls are
\* at most 50 recursive calls deep (the call from fetch_replies has depth 0,
\* the n-th recursive call below it has depth n).
C6_FiftyCallsDeep ==
    \A r \in Reqs : deepest[r] <= MAX_DEPTH

\* C6, amended. The nested calls are at most 51 recursive calls deep: the
\* call at depth 51 is made and returns the empty sequence at once. A
\* children listing is issued only at depths 0..50, the replies found by the
\* call at depth 50 get empty replies, and the returned tree has at most 51
\* levels.
C6_DepthBound ==
    \A r \in Reqs :
        /\ deepest[r] <= MAX_DEPTH + 1
        /\ Len(stack[r]) <= MAX_DEPTH + 1
        /\ \A k \in 1..Len(stack[r]) :
               LET f == stack[r][k] IN
               /\ f.depth = k - 1
               /\ f.depth <= MAX_DEPTH
               /\ f.depth = MAX_DEPTH =>
                      \A n \in 1..Len(f.response) :
                          "replies" \in DOMAIN f.response[n]
                              => f.response[n].replies = << >>
        /\ (pc[r] = "done" /\ "replies" \in DOMAIN result[r])
               => TreeDepth(result[r].replies) <= MAX_DEPTH + 1

\* the traversal of the cyclic graph returned a tree of 51 levels
C6_Witness ==
    \E r \in Reqs :
        /\ pc[r] = "done"
        /\ request[r].post_url = UrlLoop
        /\ deepest[r] = MAX_DEPTH + 1
        /\ calls[r].listing = MAX_DEPTH + 1
        /\ "replies" \in DOMAIN result[r]
        /\ TreeDepth(result[r].replies) = MAX_DEPTH + 1

\* C7. Fan-out failure isolation: every URI of a batch is handed to one
\* notify call, in order, whatever the other tasks do; a task that fails
\* (exception or non-success status) only ends; and a request that issued
\* notify calls and met no listing exception answers with success.
C7_FanOutIsolation ==
    \A r \in Reqs :
        /\ calls[r].notify = Len(notified[r])
        /\ pc[r] = "await_gather" =>
               /\ Len(tasks[r]) <= Len(notified[r])
               /\ SubSeq(notified[r], Len(notified[r]) - Len(tasks[r]) + 1,
                         Len(notified[r])) = tasks[r]
               /\ pending[r] \subseteq 1..Len(tasks[r])
               /\ failed[r] \subseteq (1..Len(tasks[r])) \ pending[r]
               /\ result[r] = NoResult
        /\ (pc[r] = "done" /\ calls[r].notify > 0 /\ ~listings[r].raised) =>
               /\ result[r].status_code = 200
               /\ result[r].message \in
                      {"Fetched Mastodon replies", "Fetched Misskey replies"}

\* a batch of two whose first task failed completed, and the request
\* answered with success
C7_Witness ==
    \E r \in Reqs :
        /\ pc[r] = "done"
        /\ result[r] = FlatFetched
        /\ Len(tasks[r]) = 2
        /\ notified[r] = tasks[r]
        /\ failed[r] = {1}

\* C8. Top-level listing failure: a request whose first reply-listing call
\* (the flat context call, or the children listing of the root post) is
\* answered with a non-success status answers with a failure message and a
\* non-success status, and issues no notify call.
C8_TopLevelListingFailure ==
    \A r \in Reqs :
        (pc[r] = "done" /\ listings[r].first = "failed")
            => /\ result[r].status_code # 200
               /\ calls[r].notify = 0

RECURSIVE ExpectedTree(_, _, _, _), ExpectedNotified(_), SubtreesNotified(_, _)
\* the tree the traversal is to return for the remote graph when the
\* listings of the nodes in `bad` (depth and id) fail
ExpectedTree(host, id, depth, bad) ==
    IF depth > 50 \/ <<depth, id>> \in bad THEN << >>
    ELSE LET kids == Children(host, id) IN
         [k \in 1..Len(kids) |->
            [id |-> kids[k].id,
             uri |-> IF "uri" \in DOMAIN kids[k] THEN kids[k].uri
                     ELSE <<"https:", "", host, "notes", kids[k].id>>,
             replies |-> ExpectedTree(host, kids[k].id, depth + 1, bad)]]
\* the notify calls the traversal is to issue for a tree: the subtrees of the
\* replies first, in order, then the replies themselves
ExpectedNotified(tree) ==
    SubtreesNotified(tree, Len(tree)) \o [k \in 1..Len(tree) |-> tree[k].uri]
SubtreesNotified(tree, n) ==
    IF n = 0 THEN << >>
    ELSE SubtreesNotified(tree, n - 1) \o ExpectedNotified(tree[n].replies)

\* C9. Partial results: when the children listings of some non-root nodes
\* are answered with a non-success status (and no listing raises), each such
\* node gets empty replies, the rest of the tree is traversed, every node of
\* the returned tree is notified once, after its subtree, and the request
\* answers with success and the partial tree. (On the cyclic host the tree is
\* a chain, told by its depth: it ends at the node whose listing failed.)
C9_PartialResults ==
    \A r \in Reqs :
        (pc[r] = "done" /\ listings[r].first = "ok" /\ ~listings[r].raised
                        /\ "replies" \in DOMAIN result[r])
        => LET url == request[r].post_url
               bad == listings[r].failedNodes
           IN  /\ result[r].status_code = 200
               /\ result[r].message = "Fetched Misskey replies"
               /\ notified[r] = ExpectedNotified(result[r].replies)
               /\ Netloc(url) # "loop.example" =>
                      result[r].replies = ExpectedTree(Netloc(url), PostId(url), 0, bad)
               /\ Netloc(url) = "loop.example" =>
                      /\ Cardinality(bad) <= 1
                      /\ \A n \in bad : TreeDepth(result[r].replies) = n[1]
                      /\ bad = {} => TreeDepth(result[r].replies) = MAX_DEPTH + 1

\* the listing of n2 failed: n2 has no replies, its sibling n3 was traversed
\* and both were notified
C9_Witness ==
    \E r \in Reqs :
        /\ pc[r] = "done"
        /\ request[r].post_url = UrlTree
        /\ listings[r].failedNodes = {<<1, "n2">>}
        /\ result[r].status_code = 200
        /\ Len(result[r].replies) = 2
        /\ result[r].replies[1].replies = << >>
        /\ Len(notified[r]) = 2

\* C10. Join barrier: when a request has answered, and while its traversal
\* is suspended in a listing call, none of its notify calls is pending.
C10_JoinBarrier ==
    \A r \in Reqs :
        pc[r] \in {"done", "await_children", "await_flat"} => pending[r] = {}

\* a tree request answered after its three notify calls completed
C10_Witness ==
    \E r \in Reqs :
        /\ pc[r] = "done"
        /\ request[r].post_url = UrlTree
        /\ calls[r].notify = 3
        /\ pending[r] = {}

Min(a, b) == IF a < b THEN a ELSE b

\* what the flat listing answers for the post of request r
Listed(r) ==
    Descendants(Netloc(request[r].post_url), PostId(request[r].post_url))

\* C11. Flat cap: when the flat listing of a request answers a descendants
\* list of length n, the URIs handed to notify calls are those of its last
\* min(n, 50) items, in input order, one call each and none for an item
\* before them.
C11_FlatCap ==
    \A r \in Reqs :
        ( /\ pc[r] \in {"await_gather", "done"}
          /\ listings[r].first = "ok"
          /\ Len(PostId(request[r].post_url)) = SNOWFLAKE_LENGTH )
        => LET d == Listed(r)
               n == Len(d)
               m == Min(n, FLAT_LIMIT)
           IN  /\ notified[r] = [k \in 1..m |-> d[n - m + k].url]
               /\ calls[r].notify = m
               /\ pc[r] = "done" => result[r] = FlatFetched

\* of 80 descendants, items 31..80 were notified
C11_Witness ==
    \E r \in Reqs :
        /\ pc[r] = "done"
        /\ request[r].post_url = UrlCrowd
        /\ Len(Listed(r)) = 80
        /\ Len(notified[r]) = 50
        /\ notified[r][1] = Listed(r)[31].url
        /\ notified[r][50] = Listed(r)[80].url

RECURSIVE MaxFanOut(_), WidestBranch(_, _)
\* the largest number of replies of a node of a reply tree
MaxFanOut(tree) == Max(Len(tree), WidestBranch(tree, Len(tree)))
WidestBranch(tree, n) ==
    IF n = 0 THEN 0
    ELSE Max(MaxFanOut(tree[n].replies), WidestBranch(tree, n - 1))

\* the replies of w0 a traversal is to keep: the first 50 listed, which have
\* no replies of their own
KeptOfWide ==
    LET kids == Children("wide.example", "w0")
    IN  [k \in 1..Min(Len(kids), CHILDREN_LIMIT) |->
            [id |-> kids[k].id,
             uri |-> <<"https:", "", "wide.example", "notes", kids[k].id>>,
             replies |-> << >>]]
UrisOf(tree) == [k \in 1..Len(tree) |-> tree[k].uri]

\* C12. Tree width cap: of the n children a children listing answers, at the
\* root or below it, the first min(n, 50) in input order are kept: they and
\* no others are listed in turn, notified and in the returned tree, and no
\* node of a returned tree has more than 50 replies.
C12_TreeWidthCap ==
    \A r \in Reqs :
        /\ \A k \in 1..Len(stack[r]) :
               LET f == stack[r][k] IN
               /\ Len(f.response) <= CHILDREN_LIMIT
               /\ f.post_base_host = "wide.example" =>
                      \/ f.post_id \in {"v0", "w0"}
                      \/ \E n \in 1..Len(KeptOfWide) : KeptOfWide[n].id = f.post_id
        /\ (pc[r] = "done" /\ "replies" \in DOMAIN result[r]) =>
               /\ MaxFanOut(result[r].replies) <= CHILDREN_LIMIT
               /\ request[r].post_url = UrlWide =>
                      /\ result[r].replies = KeptOfWide
                      /\ notified[r] = UrisOf(KeptOfWide)
                      /\ calls[r].listing = 1 + Len(KeptOfWide)
               /\ request[r].post_url = UrlWideBelow =>
                      /\ result[r].replies =
                             << [id |-> "w0", uri |-> UrlWide, replies |-> KeptOfWide] >>
                      /\ notified[r] = UrisOf(KeptOfWide) \o <<UrlWide>>
                      /\ calls[r].listing = 2 + Len(KeptOfWide)

\* of the 80 replies of a reply of the post, the first 50 were kept
C12_Witness ==
    \E r \in Reqs :
        /\ pc[r] = "done"
        /\ request[r].post_url = UrlWideBelow
        /\ world.width = 80
        /\ "replies" \in DOMAIN result[r]
        /\ Len(result[r].replies[1].replies) = 50
        /\ result[r].replies[1].replies[50].id = WideId(50)
        /\ calls[r].notify = 51

RECURSIVE UrisNonEmpty(_), BranchesNonEmpty(_, _)
\* every node of a reply tree has a non-empty uri
UrisNonEmpty(tree) == BranchesNonEmpty(tree, Len(tree))
BranchesNonEmpty(tree, n) ==
    IF n = 0 THEN TRUE
    ELSE /\ tree[n].uri # Null
         /\ UrisNonEmpty(tree[n].replies)
         /\ BranchesNonEmpty(tree, n - 1)

\* C13. URI invariant: every node of the tree a request returns, and every
\* URI its traversal hands to a notify call, has a non-empty uri, whether the
\* remote gave the child no uri field, one with a value, or a null one.
C13_UriNonEmpty ==
    \A r \in Reqs :
        /\ stack[r] # << >> => \A k \in 1..Len(tasks[r]) : tasks[r][k] # Null
        /\ (pc[r] = "done" /\ "replies" \in DOMAIN result[r]) =>
               /\ UrisNonEmpty(result[r].replies)
               /\ \A k \in 1..Len(notified[r]) : notified[r][k] # Null

\* the URL string request r was posted with
Supplied(r) == gateLog[CHOOSE j \in GateOf(r) : TRUE].url

\* C14 as stated: a request whose redirect-resolving GET was answered fails
\* with UnreachablePost exactly when the final status is not a 2xx one.
C14_UnreachableIffNon2xx ==
    \A r \in Reqs :
        (pc[r] = "done" /\ landed[r] # NoAnswer /\ ~landed[r].raised)
            => (result[r] = UnreachablePost <=> landed[r].status_code \notin 200..299)

\* C14, amended. A request fails with UnreachablePost exactly when its
\* redirect-resolving GET ends in a status other than 200 (every non-2xx
\* status, and the 2xx statuses other than 200 as well); it has then called
\* no listing endpoint and issued no notify call, and its post_url is as
\* supplied. When the GET ends in 200 the resolved URL replaces post_url and
\* the request goes on to a listing call.
C14_UnreachablePost ==
    \A r \in Reqs :
        /\ landed[r] = NoAnswer => result[r] # UnreachablePost
        /\ landed[r] # NoAnswer =>
               /\ result[r] = UnreachablePost
                      <=> (~landed[r].raised /\ landed[r].status_code # 200)
               /\ result[r] = UnreachablePost =>
                      /\ pc[r] = "done"
                      /\ fetchers[r] = {}
                      /\ calls[r].listing = 0 /\ calls[r].notify = 0
                      /\ request[r].post_url = Supplied(r)
               /\ (~landed[r].raised /\ landed[r].status_code = 200) =>
                      /\ request[r].post_url = Resolve(Supplied(r))
                      /\ fetchers[r] # {}
                      /\ calls[r].listing >= 1

\* the GET of the alias ended in 204: the request failed with UnreachablePost
C14_Witness ==
    \E r \in Reqs :
        /\ landed[r] = Replied(204)
        /\ Supplied(r) = UrlAlias
        /\ result[r] = UnreachablePost

\* C15. Platform detection: a request whose redirect-resolving GET succeeded
\* calls the flat listing endpoint, and never the children endpoint, when the
\* last segment of the resolved URL is 18 characters long, and the children
\* endpoint, and never the flat one, for every other length, 0 included;
\* before detection it calls neither.
C15_PlatformDetection ==
    \A r \in Reqs :
        IF landed[r] = Replied(200)
        THEN fetchers[r] =
                 IF Len(PostId(request[r].post_url)) = 18
                 THEN {"context"} ELSE {"children"}
        ELSE fetchers[r] = {}

\* a URL ending in "/" (an empty identifier) was fetched through the children
\* endpoint
C15_Witness ==
    \E r \in Reqs :
        /\ pc[r] = "done"
        /\ request[r].post_url = UrlSlash
        /\ fetchers[r] = {"children"}
        /\ result[r] = TreeFetched(<< >>)

RECURSIVE Populated(_), BranchesPopulated(_, _)
\* every node of a reply tree has its replies field
Populated(tree) == BranchesPopulated(tree, Len(tree))
BranchesPopulated(tree, n) ==
    IF n = 0 THEN TRUE
    ELSE /\ "replies" \in DOMAIN tree[n]
         /\ Populated(tree[n].replies)
         /\ BranchesPopulated(tree, n - 1)

\* the last n items of a sequence
LastN(s, n) == SubSeq(s, Len(s) - n + 1, Len(s))

\* C16. Fan-out ordering in the tree traversal: the children of a node are
\* traversed one at a time, in the order listed (the ones before the child
\* being traversed have their replies, the ones from it on have none yet);
\* the notify calls for a node's children are issued when every one of them
\* has its replies, after the notify calls of their subtrees; and a returned
\* tree has had each node notified once, in the batch of its parent.
C16_FanOutOrdering ==
    \A r \in Reqs :
        /\ \A k \in 1..Len(stack[r]) :
               LET f == stack[r][k] IN
               IF k < Len(stack[r])
               THEN /\ f.i \in 1..Len(f.response)
                    /\ stack[r][k + 1].post_id = f.response[f.i].id
                    /\ \A n \in 1..Len(f.response) :
                           n < f.i <=> "replies" \in DOMAIN f.response[n]
               ELSE IF pc[r] = "await_children"
               THEN f.response = << >>
               ELSE /\ pc[r] = "await_gather"
                    /\ f.i = Len(f.response) + 1
                    /\ Populated(f.response)
                    /\ tasks[r] = UrisOf(f.response)
                    /\ LET batch == ExpectedNotified(f.response)
                       IN  /\ Len(batch) <= Len(notified[r])
                           /\ LastN(notified[r], Len(batch)) = batch
        /\ (pc[r] = "done" /\ "replies" \in DOMAIN result[r]) =>
               /\ Populated(result[r].replies)
               /\ notified[r] = ExpectedNotified(result[r].replies)

\* the batch of n1's children n2 and n3 is in flight, after the batch of
\* n2's child
C16_Witness ==
    \E r \in Reqs :
        /\ pc[r] = "await_gather"
        /\ Len(stack[r]) = 1
        /\ stack[r][1].post_id = "n1"
        /\ Len(tasks[r]) = 2
        /\ Len(notified[r]) = 3
        /\ notified[r][1] = MkUrl("far.example", "notes", "r4")

\* C17. Termination: with every outbound call completing, every request that
\* arrived returns a response, on the cyclic reply graph and on the wide ones
\* too; the nested calls of a traversal stay bounded; and when a children
\* listing answers no children, the next listing of the traversal, if any,
\* is not below that node.
C17_Termination ==
    /\ \A r \in Reqs : (pc[r] # "idle") ~> (pc[r] = "done")
    /\ [][\A r \in Reqs : Len(stack'[r]) <= MAX_DEPTH + 1]_vars
    /\ [][\A r \in Reqs :
            ( /\ pc[r] = "await_children"
              /\ landed'[r] = landed[r]
              /\ Children(Last(stack[r]).post_base_host, Last(stack[r]).post_id) = << >>
              /\ pc'[r] = "await_children" )
            => \/ stack'[r] = stack[r]
               \/ Last(stack'[r]).depth <= Last(stack[r]).depth]_vars

\* the traversal of the cyclic graph returned, after 51 listings and 51
\* notify calls
C17_Witness ==
    \E r \in Reqs :
        /\ pc[r] = "done"
        /\ Netloc(request[r].post_url) = "loop.example"
        /\ result[r].status_code = 200
        /\ calls[r].listing = 51
        /\ Len(notified[r]) = 51

\* C18. Debounce check-then-mark atomicity: of the requests posted with one
\* URL string, overlapping or not and with their tokens cached or not, no two
\* pass the debounce gate less than 180 s apart; the gate is read and marked
\* in one step, so that a pass is in the cache when the step ends.
C18_CheckThenMark ==
    /\ \A i, j \in Gates :
           (i < j /\ gateLog[i].url = gateLog[j].url
                  /\ gateLog[i].pass /\ gateLog[j].pass)
               => gateLog[j].time - gateLog[i].time >= DEBOUNCE_TIMEOUT
    /\ \A j \in Gates :
           gateLog[j].pass =>
               /\ gateLog[j].url \in DOMAIN DEBOUNCE_CACHE
               /\ DEBOUNCE_CACHE[gateLog[j].url] >= gateLog[j].time

\* two requests with the same token, not cached, and the same URL overlapped
\* in the identity check and reached the gate at the same time: one passed
C18_Witness ==
    \E i, j \in Gates :
        /\ i < j
        /\ gateLog[i].url = gateLog[j].url
        /\ gateLog[i].time = gateLog[j].time
        /\ gateLog[i].pass /\ ~gateLog[j].pass
        /\ calls[gateLog[i].rid].auth = 1 /\ calls[gateLog[j].rid].auth = 1
        /\ request[gateLog[i].rid].token = request[gateLog[j].rid].token

\* the requests that failed after passing the gate
FailedAfterGate ==
    {r \in Reqs : /\ pc[r] = "done"
                  /\ result[r].status_code = 500
                  /\ \E j \in GateOf(r) : gateLog[j].pass}

\* C19. Debounce mark survives failure: a request that passed the gate and
\* then failed (redirect resolution, flat listing, or an exception in the
\* traversal) leaves its debounce entry in place, and a retry with the same
\* URL string less than 180 s after is answered "Debounced" and issues no
\* redirect, listing or notify call.
C19_MarkSurvivesFailure ==
    \A r \in FailedAfterGate :
        \A i \in GateOf(r) :
            /\ gateLog[i].url \in DOMAIN DEBOUNCE_CACHE
            /\ DEBOUNCE_CACHE[gateLog[i].url] >= gateLog[i].time
            /\ \A j \in Gates :
                   ( /\ i < j
                     /\ gateLog[j].url = gateLog[i].url
                     /\ gateLog[j].time - gateLog[i].time < DEBOUNCE_TIMEOUT )
                   => /\ ~gateLog[j].pass
                      /\ result[gateLog[j].rid] = DebouncedMessage
                      /\ NoFetchCalls(gateLog[j].rid)

\* the flat listing of a request failed, and the retry 90 s later was debounced
C19_Witness ==
    \E r \in FailedAfterGate, o \in Reqs :
        /\ result[r] = FlatFetchError
        /\ result[o] = DebouncedMessage
        /\ \E i \in GateOf(r), j \in GateOf(o) :
               /\ i < j
               /\ gateLog[i].url = gateLog[j].url
               /\ gateLog[j].time - gateLog[i].time = TickStep

\* C20. Authentication precedes all side effects: a request has issued a
\* redirect-resolution, listing or notify call only if its token is in
\* AUTHENTICATION_CACHE; a token is in the cache only if a request carrying
\* it had its identity check answered with success, and is cached with the
\* principal that check returned; no step removes or changes an entry.
C20_AuthPrecedesSideEffects ==
    /\ [](\A r \in Reqs :
            ~NoFetchCalls(r) => request[r].token \in DOMAIN AUTHENTICATION_CACHE)
    /\ [](\A t \in DOMAIN AUTHENTICATION_CACHE :
            /\ AUTHENTICATION_CACHE[t] = Username(t)
            /\ \E r \in Reqs :
                   /\ request[r].token = t
                   /\ calls[r].auth = 1
                   /\ GateOf(r) # {}
                   /\ result[r] # InvalidToken)
    /\ [][\A t \in DOMAIN AUTHENTICATION_CACHE :
            /\ t \in DOMAIN AUTHENTICATION_CACHE'
            /\ AUTHENTICATION_CACHE'[t] = AUTHENTICATION_CACHE[t]]_vars

\* a request with the valid token issued notify calls while one with the
\* other token was refused
C20_Witness ==
    \E r, o \in Reqs :
        /\ calls[r].notify > 0
        /\ request[r].token \in DOMAIN AUTHENTICATION_CACHE
        /\ result[o] = InvalidToken
        /\ request[o].token \notin DOMAIN AUTHENTICATION_CACHE

====
